---------------------------- MODULE Spec2Model ----------------------------
(***************************************************************************)
(* A model of the RF-Troy DSP core: the window function library            *)
(* (src/lib/dsp/windowing.ts), the signal generator                        *)
(* (src/lib/dsp/signal-generator.ts) and the spectral transform engine     *)
(* (src/lib/dsp/fft.ts).                                                   *)
(*                                                                         *)
(* Numbers.  An element of a Float32Array, or a double, is one of          *)
(*   [t |-> "num", v |-> n]   the integer n, held exactly;                 *)
(*   [t |-> "nan"]            NaN;                                         *)
(*   [t |-> "inf"]            +Infinity;                                   *)
(*   [t |-> "rat", n, d]      the quotient n/d of two integers, d > 0;     *)
(*   any other record         a finite value that is known only as the     *)
(*                            term the code computes it by (a cosine, a    *)
(*                            sine, a sum of products): "t" names the      *)
(*                            operation and the other fields its operands. *)
(* The frequency axis is held bit-exactly: an entry is the float32         *)
(* <<m, e>>, standing for m * 2^e with 2^23 <= m < 2^24 (or <<0, 0>>).     *)
(* A size that may be fractional (fftSize) is the rational <<n, d>>.       *)
(***************************************************************************)
EXTENDS Integers, Sequences, FiniteSets, TLC

VARIABLES
  engine,   \* <<>> before construction, else <<this.config>> of the FFTProcessor:
            \* what the config object it refers to holds now
  constructed, \* <<>>, else <<what that object held when the constructor got it>>
  op,       \* the API operation performed last
  input,    \* its arguments
  local,    \* the locals of the last processSignal call (chunk, windowedChunk, ...)
  outcome   \* what the operation did: returned a value, or threw

vars == <<engine, constructed, op, input, local, outcome>>

----------------------------------------------------------------------------
(* Bounds of the model.                                                     *)

MaxLen == 3          \* longest sample buffer of a signal handed to processSignal
MaxFftSize == 5      \* largest fftSize, and longest chunk handed to applyWindow
MaxRate == 2         \* the generators' sampleRate ranges over 0..MaxRate
MaxDuration == 2     \* the generators' duration ranges over 0, 1/2, .. MaxDuration

----------------------------------------------------------------------------
(* Numbers.                                                                 *)

Num(n) == [t |-> "num", v |-> n]
NaN == [t |-> "nan"]
Infinity == [t |-> "inf"]

IsNaN(x) == x.t = "nan"
IsZero(x) == x.t = "num" /\ x.v = 0
IsFinite(x) == x.t \notin {"nan", "inf"}

\* x * w in IEEE arithmetic, stored into a Float32Array: NaN absorbs, a product
\* of two small integers is exact, 0 times a finite value is 0.
Mul(x, w) ==
  IF IsNaN(x) \/ IsNaN(w) THEN NaN
  ELSE IF x.t = "num" /\ w.t = "num" THEN Num(x.v * w.v)
  ELSE IF IsZero(x) \/ IsZero(w) THEN Num(0)
  ELSE [t |-> "mul", x |-> x, w |-> w]

\* x + y likewise.
Add(x, y) ==
  IF IsNaN(x) \/ IsNaN(y) THEN NaN
  ELSE IF x.t = "num" /\ y.t = "num" THEN Num(x.v + y.v)
  ELSE IF IsZero(x) THEN y
  ELSE IF IsZero(y) THEN x
  ELSE [t |-> "add", x |-> x, y |-> y]

\* Rationals <<n, d>>, d > 0.
Trunc(r) == IF r[1] >= 0 THEN r[1] \div r[2] ELSE -((-r[1]) \div r[2])
IsInteger(r) == r[1] % r[2] = 0
\* The number of iterations of  for (let i = 0; i < r; i++) .
LoopCount(r) == IF r[1] <= 0 THEN 0 ELSE (r[1] + r[2] - 1) \div r[2]
Floor(r) == r[1] \div r[2]

\* What an operation did.
NoError == [name |-> "", message |-> <<>>]
Returned(v) == [status |-> "returned", error |-> NoError, value |-> <<v>>]
Thrown(e) == [status |-> "thrown", error |-> e, value |-> <<>>]

\* new Float32Array(length): ToIndex truncates the length towards zero and throws a
\* RangeError when the result is negative.
Float32ArrayThrows(length) == Trunc(length) < 0
Float32ArrayLength(length) == Trunc(length)
RangeError == [name |-> "RangeError", message |-> <<"Invalid typed array length">>]

----------------------------------------------------------------------------
(* Window function library (windowing.ts).                                  *)

\* Loop bound mutant: the last coefficient is never written and stays 0.
rectangularShort(length) ==
  [i \in 1..length |-> IF i < length THEN Num(1) ELSE Num(0)]

rectangular(length) ==
  [i \in 1..length |-> Num(1)]

\* 2 * Math.PI * i / (length - 1): for length = 1 the only index is i = 0 and the
\* quotient 0/0 is NaN, which Math.cos and the arithmetic around it hand on.
hanning(length) ==
  [i \in 1..length |->
     IF length - 1 = 0 THEN NaN
     ELSE [t |-> "hanning", i |-> i - 1, N |-> length]]

hamming(length) ==
  [i \in 1..length |->
     IF length - 1 = 0 THEN NaN
     ELSE [t |-> "hamming", i |-> i - 1, N |-> length]]

UnknownWindowType(windowType) ==
  [name |-> "Error", message |-> <<"Unknown window type: ", windowType>>]

\* Fallback mutant: an unrecognised kind is windowed as rectangular.
applyWindowFallback(signal, windowType) ==
  LET window == CASE windowType = "hanning" -> hanning(Len(signal))
                  [] windowType = "hamming" -> hamming(Len(signal))
                  [] OTHER -> rectangular(Len(signal))
  IN  Returned([i \in 1..Len(signal) |-> Mul(signal[i], window[i])])

applyWindow(signal, windowType) ==
  LET multiply(window) ==
        Returned([i \in 1..Len(signal) |-> Mul(signal[i], window[i])])
  IN  CASE windowType = "rectangular" -> multiply(rectangular(Len(signal)))
        [] windowType = "hanning" -> multiply(hanning(Len(signal)))
        [] windowType = "hamming" -> multiply(hamming(Len(signal)))
        [] OTHER -> Thrown(UnknownWindowType(windowType))

\* In-place mutant: the products are written into the caller's array
\* ( const windowedSignal = signal ).
signalAfterApplyWindowInPlace(signal, windowType) ==
  LET windowed == applyWindow(signal, windowType)
  IN  IF windowed.status = "returned" THEN windowed.value[1] ELSE signal

\* The caller's array `signal` once applyWindow has run: the call reads
\* signal.length and signal[i], and writes only to the arrays it allocates
\* itself (window, windowedSignal).
signalAfterApplyWindow(signal, windowType) == signal

----------------------------------------------------------------------------
(* float32 rounding of the frequency axis.                                  *)

RECURSIVE Pow2(_)
Pow2(k) == IF k = 0 THEN 1 ELSE 2 * Pow2(k - 1)

\* Scale n/q by powers of two until 2^23 <= n/q < 2^24 (n > 0, n/q < 2^24).
RECURSIVE Normalise(_, _, _)
Normalise(n, q, e) ==
  IF n < q * 8388608 THEN Normalise(2 * n, q, e - 1) ELSE <<n, e>>

\* The float32 nearest to p/q (p >= 0, q > 0), ties to even: what storing the
\* quotient into a Float32Array keeps.
RoundF32(p, q) ==
  IF p = 0 THEN <<0, 0>>
  ELSE LET s == Normalise(p, q, 0)
           m0 == s[1] \div q
           r == s[1] % q
           m == IF 2 * r > q \/ (2 * r = q /\ m0 % 2 = 1) THEN m0 + 1 ELSE m0
       IN  IF m = 16777216 THEN <<8388608, s[2] + 1>> ELSE <<m, s[2]>>

\* Order of float32 values >= 0, and their comparison with a rational p/q
\* (q > 0; the values compared are below 128, so that every exponent is <= -17).
F32Less(a, b) ==
  IF b[1] = 0 THEN FALSE
  ELSE a[1] = 0 \/ a[2] < b[2] \/ (a[2] = b[2] /\ a[1] < b[1])
F32LessRat(a, p, q) == a[1] * q < p * Pow2(0 - a[2])
\* | a - p/q | <= 2^-24 * p/q : a is p/q to float32 precision.
F32Near(a, p, q) ==
  LET x == a[1] * q
      y == p * Pow2(0 - a[2])
      diff == IF x >= y THEN x - y ELSE y - x
  IN  IF p = 0 THEN a[1] = 0 ELSE diff <= (p * Pow2((0 - a[2]) - 17)) \div 128

----------------------------------------------------------------------------
(* Spectral transform engine (fft.ts).                                      *)

\* 1e-10, the floor of convertToDecibels, is 10^FloorExponent.
FloorExponent == -10

\* A Float32Array of `length` entries, zero-filled by new, after the loop
\*   for (let i = 0; i < Len(written); i++) array[i] = written[i + 1]
\* (a write past the end of a typed array is dropped).
Filled(length, zero, written) ==
  [i \in 1..length |-> IF i <= Len(written) THEN written[i] ELSE zero]

FFTProcessor(config) == Returned(config)

extractChunk(samples, chunkSize) ==
  IF Float32ArrayThrows(chunkSize) THEN Thrown(RangeError)
  ELSE LET copy(i) == IF i < Len(samples) THEN samples[i + 1] ELSE Num(0)
       IN  Returned(Filled(Float32ArrayLength(chunkSize), Num(0),
                           [i \in 1..LoopCount(chunkSize) |-> copy(i - 1)]))

\* One bin of the direct transform: the sums over n of samples[n] * cos(angle)
\* and samples[n] * sin(angle).  A NaN sample makes both sums NaN, samples that
\* are all 0 make both 0, and any other sum is kept as its term.
computeFFT(samples) ==
  LET N == Len(samples)
      bin(k) ==
        IF \E n \in 1..N : IsNaN(samples[n])
        THEN [real |-> NaN, imag |-> NaN]
        ELSE IF \A n \in 1..N : IsZero(samples[n])
        THEN [real |-> Num(0), imag |-> Num(0)]
        ELSE [real |-> [t |-> "realSum", k |-> k, samples |-> samples],
              imag |-> [t |-> "imagSum", k |-> k, samples |-> samples]]
  IN  \* for (let k = 0; k < N / 2; k++) result.push(...)
      [i \in 1..LoopCount(<<N, 2>>) |-> bin(i - 1)]

computeMagnitudes(complexData) ==
  LET sqrt(c) ==
        IF IsNaN(c.real) \/ IsNaN(c.imag) THEN NaN
        ELSE IF IsZero(c.real) /\ IsZero(c.imag) THEN Num(0)
        ELSE [t |-> "magnitude", real |-> c.real, imag |-> c.imag]
  IN  Filled(Len(complexData), Num(0),
             [i \in 1..Len(complexData) |-> sqrt(complexData[i])])

\* Divisor mutant: each bin is taken to span sampleRate / numBins Hz.
createFrequencyAxisByBins(config, sampleRate) ==
  LET numBins == <<config.fftSize[1], 2 * config.fftSize[2]>>
      frequency(i) ==
        RoundF32(i * sampleRate * numBins[2], numBins[1])
  IN  Filled(Float32ArrayLength(numBins), <<0, 0>>,
             [i \in 1..LoopCount(numBins) |-> frequency(i - 1)])

createFrequencyAxis(config, sampleRate) ==
  LET numBins == <<config.fftSize[1], 2 * config.fftSize[2]>>
      frequency(i) ==
        RoundF32(i * sampleRate * config.fftSize[2], config.fftSize[1])
  IN  Filled(Float32ArrayLength(numBins), <<0, 0>>,
             [i \in 1..LoopCount(numBins) |-> frequency(i - 1)])

convertToDecibels(magnitudes) ==
  LET dB(x) ==
        IF IsNaN(x) THEN NaN                       \* Math.max(NaN, 1e-10) is NaN
        ELSE IF IsZero(x) THEN Num(20 * FloorExponent)
        ELSE [t |-> "dB", magnitude |-> x]
  IN  Filled(Len(magnitudes), Num(0),
             [i \in 1..Len(magnitudes) |-> dB(magnitudes[i])])

\* sampleRate / fftSize as a double.
binWidth(config, sampleRate) ==
  LET n == sampleRate * config.fftSize[2]
      d == config.fftSize[1]
  IN  IF d = 0 THEN (IF n = 0 THEN NaN ELSE Infinity)
      ELSE IF d < 0 THEN [t |-> "rat", n |-> 0 - n, d |-> 0 - d]
      ELSE [t |-> "rat", n |-> n, d |-> d]

\* Averaging mutant: with an averagingCount other than 1 the magnitudes are
\* divided by it before they are converted to dB.
processSignalAveraged(config, signal, now) ==
  LET chunk == extractChunk(signal.samples, config.fftSize)
  IN  IF chunk.status = "thrown" THEN chunk
      ELSE
      LET windowedChunk == applyWindow(chunk.value[1], config.windowType)
      IN  IF windowedChunk.status = "thrown" THEN windowedChunk
          ELSE
          LET magnitudes == computeMagnitudes(computeFFT(windowedChunk.value[1]))
              averaged ==
                [i \in 1..Len(magnitudes) |->
                   IF config.averagingCount = 1 \/ ~IsFinite(magnitudes[i])
                   THEN magnitudes[i]
                   ELSE [t |-> "average", x |-> magnitudes[i],
                         count |-> config.averagingCount]]
          IN  Returned([frequencies |-> createFrequencyAxis(config, signal.sampleRate),
                        magnitudes |-> convertToDecibels(averaged),
                        timestamp |-> now,
                        binWidth |-> binWidth(config, signal.sampleRate)])

processSignal(config, signal, now) ==
  LET chunk == extractChunk(signal.samples, config.fftSize)
  IN  IF chunk.status = "thrown" THEN chunk
      ELSE
      LET windowedChunk == applyWindow(chunk.value[1], config.windowType)
      IN  IF windowedChunk.status = "thrown" THEN windowedChunk
          ELSE
          LET fftResult == computeFFT(windowedChunk.value[1])
              magnitudes == computeMagnitudes(fftResult)
              frequencies == createFrequencyAxis(config, signal.sampleRate)
              magnitudesDB == convertToDecibels(magnitudes)
          IN  Returned([frequencies |-> frequencies,
                        magnitudes |-> magnitudesDB,
                        timestamp |-> now,
                        binWidth |-> binWidth(config, signal.sampleRate)])

----------------------------------------------------------------------------
(* Signal generator (signal-generator.ts).  duration is a rational <<n, d>>,  *)
(* sampleRate, a frequency and an amplitude are integers.                   *)

\* Rounding mutant: the sample count is rounded up.
numSamplesCeil(duration, sampleRate) ==
  LoopCount(<<duration[1] * sampleRate, duration[2]>>)

\* Math.floor(duration * sampleRate)
numSamples(duration, sampleRate) ==
  Floor(<<duration[1] * sampleRate, duration[2]>>)

\* Math.sin(2 * Math.PI * frequency * time) at time = i / sampleRate: sin(0) is 0.
Sin(frequency, i, sampleRate) ==
  IF frequency = 0 \/ i = 0 THEN Num(0)
  ELSE [t |-> "sin", frequency |-> frequency, i |-> i, sampleRate |-> sampleRate]

\* const samples = new Float32Array(numSamples), then the loop that writes
\* written[i + 1] to samples[i] for i < numSamples.
Buffer(n, written) ==
  IF Float32ArrayThrows(<<n, 1>>) THEN Thrown(RangeError)
  ELSE Returned(Filled(Float32ArrayLength(<<n, 1>>), Num(0), written))

\* return { samples, sampleRate, timestamp: Date.now(), duration }
Stamp(buffer, sampleRate, duration, now) ==
  IF buffer.status = "thrown" THEN buffer
  ELSE Returned([samples |-> buffer.value[1], sampleRate |-> sampleRate,
                 timestamp |-> now, duration |-> duration])

createSineWave(frequency, amplitude, duration, sampleRate, now) ==
  LET n == numSamples(duration, sampleRate)
      sample(i) == Mul(Num(amplitude), Sin(frequency, i, sampleRate))
  IN  Stamp(Buffer(n, [i \in 1..n |-> sample(i - 1)]), sampleRate, duration, now)

\* amplitudes[freqIndex] || 1 : an index past the end reads undefined, and both
\* undefined and 0 are falsy.
amplitudeOr1(amplitudes, freqIndex) ==
  IF freqIndex >= Len(amplitudes) THEN 1
  ELSE IF amplitudes[freqIndex + 1] = 0 THEN 1
  ELSE amplitudes[freqIndex + 1]

\* samples[i] after the components 0 .. count-1 were added to it in turn.
RECURSIVE multiToneSample(_, _, _, _, _)
multiToneSample(frequencies, amplitudes, count, i, sampleRate) ==
  IF count = 0 THEN Num(0)
  ELSE Add(multiToneSample(frequencies, amplitudes, count - 1, i, sampleRate),
           Mul(Num(amplitudeOr1(amplitudes, count - 1)),
               Sin(frequencies[count], i, sampleRate)))

createMultiTone(frequencies, amplitudes, duration, sampleRate, now) ==
  LET n == numSamples(duration, sampleRate)
      sample(i) ==
        multiToneSample(frequencies, amplitudes, Len(frequencies), i, sampleRate)
  IN  Stamp(Buffer(n, [i \in 1..n |-> sample(i - 1)]), sampleRate, duration, now)

\* random[i + 1] is the value of 2 * Math.random() - 1 drawn for sample i.
createWhiteNoise(amplitude, duration, sampleRate, random, now) ==
  LET n == numSamples(duration, sampleRate)
      sample(i) == Mul(Num(amplitude), Num(random[i + 1]))
  IN  Stamp(Buffer(n, [i \in 1..n |-> sample(i - 1)]), sampleRate, duration, now)

\* Math.sin(2 * Math.PI * instantFreq * time), with
\* instantFreq = startFreq + (endFreq - startFreq) * (time / duration).
createChirp(startFreq, endFreq, duration, sampleRate, now) ==
  LET n == numSamples(duration, sampleRate)
      sample(i) ==
        IF i = 0 THEN Num(0)
        ELSE [t |-> "chirp", startFreq |-> startFreq, endFreq |-> endFreq,
              i |-> i, sampleRate |-> sampleRate, duration |-> duration]
  IN  Stamp(Buffer(n, [i \in 1..n |-> sample(i - 1)]), sampleRate, duration, now)

----------------------------------------------------------------------------
(* Inputs.                                                                  *)

RECURSIVE SeqsUpTo(_, _)
SeqsUpTo(S, n) ==
  IF n = 0 THEN {<<>>}
  ELSE LET shorter == SeqsUpTo(S, n - 1)
       IN  shorter \cup {Append(s, x) : s \in {t \in shorter : Len(t) = n - 1}, x \in S}

Samples == {Num(0), Num(1)}
SampleRates == {1, 2}
\* What Date.now() may return.
Clock == {1}

\* fftSize as a caller may pass it: the integers -1 .. MaxFftSize and the
\* fractions 3/2 and 5/2.
FftSizes == {<<n, 1>> : n \in (0 - 1)..MaxFftSize} \cup {<<3, 2>>, <<5, 2>>}
WindowTypes == {"rectangular", "hanning", "hamming", "blackman"}
AveragingCounts == {1, 4}
Configs ==
  [fftSize : FftSizes, windowType : WindowTypes, averagingCount : AveragingCounts]

\* A TimeSignal built by the caller around a sample buffer.
TimeSignal(samples, sampleRate) ==
  [samples |-> samples, sampleRate |-> sampleRate, timestamp |-> 1,
   duration |-> <<Len(samples), sampleRate>>]
Signals == {TimeSignal(s, r) : s \in SeqsUpTo(Samples, MaxLen), r \in SampleRates}

NotReached == [status |-> "not reached", error |-> NoError, value |-> <<>>]
NoLocals == [chunk |-> NotReached, windowedChunk |-> NotReached]

----------------------------------------------------------------------------
(* The engine as a state machine: an FFTProcessor is constructed and then   *)
(* asked to process signals.                                                *)

\* new FFTProcessor(config)
Init ==
  \E config \in Configs :
    /\ op = "new"
    /\ input = <<config>>
    /\ local = NoLocals
    /\ outcome = FFTProcessor(config)
    /\ engine = outcome.value
    /\ constructed = <<config>>

\* engine.processSignal(signal), with Date.now() = now
ProcessSignal(signal, now) ==
  /\ engine # <<>>
  /\ op' = "processSignal"
  /\ input' = <<signal>>
  /\ LET chunk == extractChunk(signal.samples, engine[1].fftSize)
     IN  local' = [chunk |-> chunk,
                   windowedChunk |->
                     IF chunk.status = "thrown" THEN NotReached
                     ELSE applyWindow(chunk.value[1], engine[1].windowType)]
  /\ outcome' = processSignal(engine[1], signal, now)
  /\ UNCHANGED <<engine, constructed>>

Next ==
  \E signal \in Signals, now \in Clock : ProcessSignal(signal, now)

Spec == Init /\ [][Next]_vars

----------------------------------------------------------------------------
(* The engine and the caller that constructed it.  The constructor keeps    *)
(* the reference it was given ( this.config = config ), and the fields of a *)
(* DSPConfig are writable: an assignment the caller makes to its config     *)
(* object afterwards is an assignment to this.config.                       *)

CallerFftSizes == {<<2, 1>>, <<4, 1>>}
CallerWindowTypes == {"rectangular", "hanning"}
CallerConfigs ==
  [fftSize : CallerFftSizes, windowType : CallerWindowTypes,
   averagingCount : {1}]

InitCaller == Init /\ input[1] \in CallerConfigs

\* config.fftSize = fftSize, by the caller
SetFftSize(fftSize) ==
  /\ engine # <<>>
  /\ engine' = <<[engine[1] EXCEPT !.fftSize = fftSize]>>
  /\ UNCHANGED <<constructed, op, input, local, outcome>>

\* config.windowType = windowType, by the caller
SetWindowType(windowType) ==
  /\ engine # <<>>
  /\ engine' = <<[engine[1] EXCEPT !.windowType = windowType]>>
  /\ UNCHANGED <<constructed, op, input, local, outcome>>

NextCaller ==
  \/ \E signal \in Signals, now \in Clock : ProcessSignal(signal, now)
  \/ \E fftSize \in CallerFftSizes : SetFftSize(fftSize)
  \/ \E windowType \in CallerWindowTypes : SetWindowType(windowType)

SpecCaller == InitCaller /\ [][NextCaller]_vars

----------------------------------------------------------------------------
(* The window function library: a caller picks a chunk of at most           *)
(* MaxFftSize samples and a window kind, and the one step is the call       *)
(* WindowFunctions.applyWindow(signal, windowType).                         *)

Pending == outcome.status = "not reached"

InitWindow ==
  \E signal \in SeqsUpTo(Samples, MaxFftSize), windowType \in WindowTypes :
    /\ engine = <<>>
    /\ constructed = <<>>
    /\ op = "applyWindow"
    /\ input = <<signal, windowType>>
    /\ local = NoLocals
    /\ outcome = NotReached

ApplyWindow ==
  /\ op = "applyWindow"
  /\ Pending
  /\ outcome' = applyWindow(input[1], input[2])
  /\ input' = <<signalAfterApplyWindow(input[1], input[2]), input[2]>>
  /\ UNCHANGED <<engine, constructed, op, local>>

NextWindow == ApplyWindow

SpecWindow == InitWindow /\ [][NextWindow]_vars

----------------------------------------------------------------------------
(* The signal generator: a caller picks one of the four static operations   *)
(* and its arguments, and the one step is that call.                        *)

Frequencies == {1, 3}
Amplitudes == {0, 1, 2}
Durations == {<<n, 2>> : n \in 0..(2 * MaxDuration)}
GeneratorRates == 0..MaxRate
\* 2 * Math.random() - 1 for Math.random() = 0 and Math.random() = 0.5
RandomValues == {0 - 1, 0}
RandomDraws == [1..(MaxDuration * MaxRate) -> RandomValues]

InitGenerator ==
  /\ engine = <<>>
  /\ constructed = <<>>
  /\ local = NoLocals
  /\ outcome = NotReached
  /\ \E duration \in Durations, sampleRate \in GeneratorRates :
       \/ \E frequency \in Frequencies, amplitude \in Amplitudes :
            /\ op = "createSineWave"
            /\ input = [frequency |-> frequency, amplitude |-> amplitude,
                        duration |-> duration, sampleRate |-> sampleRate]
       \/ \E frequencies \in SeqsUpTo(Frequencies, 2),
              amplitudes \in SeqsUpTo(Amplitudes, 2) :
            /\ op = "createMultiTone"
            /\ input = [frequencies |-> frequencies, amplitudes |-> amplitudes,
                        duration |-> duration, sampleRate |-> sampleRate]
       \/ \E amplitude \in Amplitudes :
            /\ op = "createWhiteNoise"
            /\ input = [amplitude |-> amplitude,
                        duration |-> duration, sampleRate |-> sampleRate]
       \/ \E startFreq \in Frequencies, endFreq \in Frequencies :
            /\ op = "createChirp"
            /\ input = [startFreq |-> startFreq, endFreq |-> endFreq,
                        duration |-> duration, sampleRate |-> sampleRate]

CreateSineWave(now) ==
  /\ op = "createSineWave"
  /\ Pending
  /\ outcome' = createSineWave(input.frequency, input.amplitude,
                               input.duration, input.sampleRate, now)
  /\ UNCHANGED <<engine, constructed, op, input, local>>

CreateMultiTone(now) ==
  /\ op = "createMultiTone"
  /\ Pending
  /\ outcome' = createMultiTone(input.frequencies, input.amplitudes,
                                input.duration, input.sampleRate, now)
  /\ UNCHANGED <<engine, constructed, op, input, local>>

CreateWhiteNoise(random, now) ==
  /\ op = "createWhiteNoise"
  /\ Pending
  /\ outcome' = createWhiteNoise(input.amplitude, input.duration,
                                 input.sampleRate, random, now)
  /\ UNCHANGED <<engine, constructed, op, input, local>>

CreateChirp(now) ==
  /\ op = "createChirp"
  /\ Pending
  /\ outcome' = createChirp(input.startFreq, input.endFreq,
                            input.duration, input.sampleRate, now)
  /\ UNCHANGED <<engine, constructed, op, input, local>>

NextGenerator ==
  \E now \in Clock :
    \/ CreateSineWave(now)
    \/ CreateMultiTone(now)
    \/ \E random \in RandomDraws : CreateWhiteNoise(random, now)
    \/ CreateChirp(now)

SpecGenerator == InitGenerator /\ [][NextGenerator]_vars

----------------------------------------------------------------------------
(* Vocabulary of the claims.                                                *)

Recognized(windowType) == windowType \in {"rectangular", "hanning", "hamming"}
\* A positive integer.
ValidFftSize(fftSize) == IsInteger(fftSize) /\ fftSize[1] > 0
Processed == op = "processSignal"
ProcessedOk == op = "processSignal" /\ outcome.status = "returned"
Spectrum == outcome.value[1]
Config == engine[1]
Signal == input[1]

----------------------------------------------------------------------------
(* Claims about the engine, checked under Spec.                             *)

\* C1: for every positive integer fftSize F, even or odd, the spectrum that
\* processSignal returns has as many frequencies as magnitudes, and that number
\* is F/2 (its integer part).
C1_SpectrumLengths ==
  (ProcessedOk /\ ValidFftSize(Config.fftSize)) =>
     /\ Len(Spectrum.frequencies) = Len(Spectrum.magnitudes)
     /\ Len(Spectrum.frequencies) = Trunc(Config.fftSize) \div 2

\* C2: constructing the engine with an fftSize that is zero, negative or not an
\* integer fails at construction, so no engine holds such an fftSize and
\* processSignal never runs with one.
C2_InvalidConfigRejected ==
  /\ (op = "new" /\ ~ValidFftSize(input[1].fftSize)) =>
        (outcome.status = "thrown" /\ engine = <<>>)
  /\ engine # <<>> => ValidFftSize(Config.fftSize)
  /\ Processed => ValidFftSize(Config.fftSize)

\* C4: every processSignal call either returns a SpectrumData with frequencies,
\* magnitudes, binWidth and timestamp, or fails and returns nothing; with an
\* unrecognized windowType it fails with the very error applyWindow threw.
C4_AllOrNothing ==
  Processed =>
     /\ \/ /\ outcome.status = "returned"
           /\ DOMAIN Spectrum = {"frequencies", "magnitudes", "binWidth", "timestamp"}
           /\ Spectrum.timestamp \in Clock
        \/ /\ outcome.status = "thrown"
           /\ outcome.value = <<>>
     /\ ~Recognized(Config.windowType) =>
           /\ outcome.status = "thrown"
           /\ local.windowedChunk.status = "thrown"
           /\ outcome.error = local.windowedChunk.error
           /\ outcome.error = UnknownWindowType(Config.windowType)

\* C5: chunk extraction never throws and yields exactly fftSize entries, for
\* every signal length L: entry i is samples[i] for i < min(L, fftSize) and 0 for
\* L <= i < fftSize.
C5_ChunkExtraction ==
  Processed =>
     /\ local.chunk.status = "returned"
     /\ LET chunk == local.chunk.value[1]
            samples == Signal.samples
        IN  /\ Len(chunk) * Config.fftSize[2] = Config.fftSize[1]
            /\ \A i \in 1..Len(chunk) :
                  chunk[i] = IF i <= Len(samples) THEN samples[i] ELSE Num(0)

\* C6: with fftSize/2 >= 1 and sampleRate > 0 the returned frequency axis starts
\* at 0, holds k * sampleRate / fftSize (to the precision of its float32 entry)
\* at every bin k, is strictly increasing and ends strictly below sampleRate/2,
\* and binWidth is sampleRate / fftSize.
C6_FrequencyAxis ==
  (ProcessedOk /\ Config.fftSize[1] >= 2 * Config.fftSize[2]
               /\ Signal.sampleRate > 0) =>
     LET f == Spectrum.frequencies
         n == Len(f)
         num == Signal.sampleRate * Config.fftSize[2]
         den == Config.fftSize[1]
     IN  /\ n >= 1
         /\ f[1] = <<0, 0>>
         /\ \A i \in 1..n : F32Near(f[i], (i - 1) * num, den)
         /\ \A i \in 1..(n - 1) : F32Less(f[i], f[i + 1])
         /\ F32LessRat(f[n], Signal.sampleRate, 2)
         /\ Spectrum.binWidth.t = "rat"
         /\ Spectrum.binWidth.n * den = num * Spectrum.binWidth.d

\* A call with two bins on the axis, at an fftSize that is no power of two, so
\* that the second frequency (2/5) is no float32.
C6_Witness ==
  /\ ProcessedOk
  /\ Config.fftSize = <<5, 1>>
  /\ Len(Spectrum.frequencies) = 2
  /\ Signal.sampleRate = 2

\* C7: every dB value processSignal returns is finite, and for a zero-length or
\* all-zero signal every bin is reported as 20 * log10(1e-10) = -200 dB.
C7_FiniteDecibels ==
  ProcessedOk =>
     /\ \A i \in 1..Len(Spectrum.magnitudes) : IsFinite(Spectrum.magnitudes[i])
     /\ (\A n \in 1..Len(Signal.samples) : IsZero(Signal.samples[n])) =>
           \A i \in 1..Len(Spectrum.magnitudes) : Spectrum.magnitudes[i] = Num(-200)

\* C14: averagingCount has no observable effect: an engine whose configuration
\* differs from this one's in averagingCount only does on the same signal what
\* this engine did: it fails alike, or returns the same frequencies, magnitudes
\* and binWidth.
C14_AveragingCountUnused ==
  Processed =>
     \A averagingCount \in AveragingCounts, now \in Clock :
        LET other == processSignal([Config EXCEPT !.averagingCount = averagingCount],
                                   Signal, now)
        IN  /\ other.status = outcome.status
            /\ other.error = outcome.error
            /\ outcome.status = "returned" =>
                  /\ other.value[1].frequencies = Spectrum.frequencies
                  /\ other.value[1].magnitudes = Spectrum.magnitudes
                  /\ other.value[1].binWidth = Spectrum.binWidth

\* An engine with averagingCount 4 returned two bins, one of them with energy.
C14_Witness ==
  /\ ProcessedOk
  /\ Config.averagingCount = 4
  /\ Config.fftSize = <<4, 1>>
  /\ Len(Spectrum.magnitudes) = 2
  /\ \E i \in 1..2 : Spectrum.magnitudes[i] # Num(-200)
  /\ \E n \in 1..Len(Signal.samples) : ~IsZero(Signal.samples[n])

----------------------------------------------------------------------------
(* Claims about the engine and its caller, checked under SpecCaller.        *)

\* C13: whatever the caller assigns to its config object between the calls,
\* every processSignal call does what the fftSize and windowType given at
\* construction ask for, and leaves the engine's configuration as it was.
C13_ConfigFixedAtConstruction ==
  [][\A signal \in Signals, now \in Clock :
        ProcessSignal(signal, now) =>
           /\ outcome' = processSignal(constructed[1], signal, now)
           /\ engine' = engine]_vars

----------------------------------------------------------------------------
(* Claims about the window function library, checked under SpecWindow.      *)

AppliedWindow == op = "applyWindow" /\ ~Pending

\* C3: applyWindow with a kind other than rectangular, hanning or hamming fails
\* with an error for every chunk: it does not fall back to the rectangular
\* window and returns no output, whole or partial.
C3_UnknownWindowThrows ==
  (AppliedWindow /\ ~Recognized(input[2])) =>
     /\ outcome.status = "thrown"
     /\ outcome.error.name = "Error"
     /\ outcome.value = <<>>

\* applyWindow was called on a non-empty chunk with an unrecognized kind.
C3_Witness ==
  /\ AppliedWindow
  /\ input[2] = "blackman"
  /\ Len(input[1]) = 2
  /\ outcome.status = "thrown"

\* C10: applyWindow(x, 'rectangular') returns a sequence of the length of x
\* whose every element equals that of x.
C10_RectangularIsIdentity ==
  (AppliedWindow /\ input[2] = "rectangular") =>
     /\ outcome.status = "returned"
     /\ Len(outcome.value[1]) = Len(input[1])
     /\ \A i \in 1..Len(input[1]) : outcome.value[1][i] = input[1][i]

\* The rectangular window was applied to a chunk that is not all zero.
C10_Witness ==
  /\ AppliedWindow
  /\ input[2] = "rectangular"
  /\ input[1] = <<Num(1), Num(0), Num(1)>>
  /\ outcome = Returned(<<Num(1), Num(0), Num(1)>>)

\* The coefficients of a recognized window kind.
Coefficients(windowType, length) ==
  CASE windowType = "rectangular" -> rectangular(length)
    [] windowType = "hanning" -> hanning(length)
    [] windowType = "hamming" -> hamming(length)

\* C11: for every recognized window kind and every chunk, the call of
\* applyWindow returns a sequence of the length of the chunk with
\* output[i] = chunk[i] * coefficients[i], and the chunk the caller passed holds
\* after the call what it held before it (so the output is not the chunk itself).
C11_WindowedCopy ==
  [][(Pending /\ op = "applyWindow" /\ Recognized(input[2])) =>
       /\ input' = input
       /\ outcome'.status = "returned"
       /\ Len(outcome'.value[1]) = Len(input[1])
       /\ \A i \in 1..Len(input[1]) :
             outcome'.value[1][i] =
               Mul(input[1][i], Coefficients(input[2], Len(input[1]))[i])]_vars

\* A Hann window was applied to a three-sample chunk: the output differs from
\* the chunk, which still holds its samples.
C11_Witness ==
  /\ AppliedWindow
  /\ input = <<(<<Num(1), Num(1), Num(1)>>), "hanning">>
  /\ outcome.status = "returned"
  /\ Len(outcome.value[1]) = 3
  /\ outcome.value[1][2] = [t |-> "mul", x |-> Num(1),
                                         w |-> [t |-> "hanning", i |-> 1, N |-> 3]]
  /\ outcome.value[1] # input[1]

\* C12: for window length N = 1 the hanning and hamming windows have one
\* finite coefficient, and applyWindow on a one-element chunk with either kind
\* returns one finite value: the zero denominator N - 1 yields no NaN.
C12_SingleSampleWindow ==
  (AppliedWindow /\ Len(input[1]) = 1 /\ input[2] \in {"hanning", "hamming"}) =>
     /\ Len(Coefficients(input[2], 1)) = 1
     /\ IsFinite(Coefficients(input[2], 1)[1])
     /\ outcome.status = "returned"
     /\ Len(outcome.value[1]) = 1
     /\ IsFinite(outcome.value[1][1])

----------------------------------------------------------------------------
(* Claims about the signal generator, checked under SpecGenerator.          *)

Generated ==
  /\ op \in {"createSineWave", "createMultiTone", "createWhiteNoise", "createChirp"}
  /\ ~Pending

\* C8: each of the four generators returns a TimeSignal with exactly
\* floor(duration * sampleRate) samples, stamped with the sampleRate and the
\* duration it was given; when that count is 0 the signal is empty, not an error.
C8_GeneratedLength ==
  Generated =>
     /\ outcome.status = "returned"
     /\ LET count == Len(outcome.value[1].samples)
            product == <<input.duration[1] * input.sampleRate, input.duration[2]>>
        IN  /\ count * product[2] <= product[1]
            /\ product[1] < (count + 1) * product[2]
     /\ outcome.value[1].sampleRate = input.sampleRate
     /\ outcome.value[1].duration = input.duration
     /\ DOMAIN outcome.value[1] = {"samples", "sampleRate", "timestamp", "duration"}

\* A chirp whose duration * sampleRate is not an integer.
C8_Witness ==
  /\ op = "createChirp"
  /\ input.duration = <<3, 2>>
  /\ input.sampleRate = 1
  /\ outcome.status = "returned"
  /\ Len(outcome.value[1].samples) = 1

\* The weight the claim gives component j (counted from 1).
ClaimedWeight(amplitudes, j) == IF j <= Len(amplitudes) THEN amplitudes[j] ELSE 1

RECURSIVE ClaimedSample(_, _, _, _, _)
ClaimedSample(frequencies, amplitudes, count, i, sampleRate) ==
  IF count = 0 THEN Num(0)
  ELSE Add(ClaimedSample(frequencies, amplitudes, count - 1, i, sampleRate),
           Mul(Num(ClaimedWeight(amplitudes, count)),
               Sin(frequencies[count], i, sampleRate)))

\* C9: createMultiTone weighs component j by amplitudes[j] wherever an amplitude
\* was supplied, 0 included, and by 1 only where it is missing; each sample is
\* the plain sum of the weighted components.
C9_MultiToneWeights ==
  (op = "createMultiTone" /\ outcome.status = "returned") =>
     \A i \in 1..Len(outcome.value[1].samples) :
        outcome.value[1].samples[i] =
          ClaimedSample(input.frequencies, input.amplitudes,
                        Len(input.frequencies), i - 1, input.sampleRate)

=============================================================================
